---------------------------- MODULE Spec2Model ----------------------------
(***************************************************************************)
(* The retry decorator of resource_management/libraries/functions/         *)
(* decorator.py: retry(times, sleep_time, backoff_factor, err_class)       *)
(* wraps a function; each call of the wrapper runs the loop of lines       *)
(* 40-54.  The policy (the arguments of retry) is closure state shared by  *)
(* every invocation of the wrapper; _times, _sleep_time, _backoff_factor   *)
(* and _err_class are locals of one invocation.                            *)
(*                                                                         *)
(* Durations are Python numbers that need not be integers (sleep_time=0.5, *)
(* backoff_factor=1.5), so they are modelled as exact fractions            *)
(* [num, den] in lowest terms; the fractions used are dyadic and small, so *)
(* Python's float arithmetic on them is exact.                             *)
(*                                                                         *)
(* The module also holds lines 39-98 of hooks/before-ANY/scripts/params.py *)
(* (get_port, is_secure_port and the derivation of hadoop_secure_dn_user), *)
(* under its own specification SpecParams.                                 *)
(***************************************************************************)
EXTENDS Integers, Sequences, FiniteSets, TLC

\* ------------------------------------------------------------- bounds
\* Largest value of the times argument that is explored.
MaxTimes == 5
\* Largest value of times explored when two invocations interleave.
MaxTimesConc == 2

\* The invocations of one decorated function that are explored.
Invocations == {1, 2}

\* ----------------------------------------------------------- fractions
Frac(n, d) == [num |-> n, den |-> d]

RECURSIVE GCD(_, _)
GCD(a, b) == IF b = 0 THEN a ELSE GCD(b, a % b)

\* A non-negative fraction in lowest terms (one value, one representation).
Norm(q) ==
  IF q.num = 0 THEN Frac(0, 1)
  ELSE LET g == GCD(q.num, q.den) IN Frac(q.num \div g, q.den \div g)

\* x * y on Python numbers (line 47: _sleep_time *= _backoff_factor).
Mul(x, y) == Norm(Frac(x.num * y.num, x.den * y.den))

\* "%d" % x for a non-negative Python number x: int(x), truncation (line 51).
FormatD(x) == x.num \div x.den

\* ------------------------------------------------------- the arguments
\* Values of the times argument: the default 3, 1 (no retry), and values
\* below 1, which the code accepts.
TimesValues == (-1)..MaxTimes
ConcTimesValues == 1..MaxTimesConc
SleepTimeValues == {Frac(0, 1), Frac(1, 2), Frac(1, 1)}
BackoffFactorValues == {Frac(1, 1), Frac(3, 2), Frac(2, 1)}

\* Exception classes and Python 2's hierarchy among them.
Parent(c) ==
  CASE c = "IOError" -> "Exception"
    [] c = "ValueError" -> "Exception"
    [] c = "Exception" -> "BaseException"
    [] c = "KeyboardInterrupt" -> "BaseException"
    [] OTHER -> "BaseException"

RECURSIVE IsSubclass(_, _)
IsSubclass(c, d) ==
  IF c = d THEN TRUE
  ELSE IF c = "BaseException" THEN FALSE
  ELSE IsSubclass(Parent(c), d)

\* Values of the err_class argument: the default Exception, or a narrower class.
ErrClassValues == {"Exception", "IOError"}

\* What the wrapped function may do when called: return a value, or raise
\* an exception of some class with some message.
RaisedClasses == {"IOError", "ValueError", "KeyboardInterrupt"}
Messages == {"m1", "m2"}
ReturnValues == {"v1", "v2"}

Returned(v) == [type |-> "return", value |-> v, class |-> "-", msg |-> "-"]
Raised(c, m) == [type |-> "raise", value |-> "-", class |-> c, msg |-> m]
None == [type |-> "none", value |-> "-", class |-> "-", msg |-> "-"]

\* Caught matching the exception's own class only (type(err) is cls), not
\* its subclasses.
Caught_ExactClass(e, cls) == e.type = "raise" /\ e.class = cls

\* except _err_class, err: the clause catches instances of _err_class (line 50).
Caught(e, cls) == e.type = "raise" /\ IsSubclass(e.class, cls)

\* str(err) of an exception built from one message (line 51).
Str(e) == e.msg

\* =============================================== params.py, the inputs
\* default(path, None) and config[...] values: a value, or Python's None.
Given(x) == [given |-> TRUE, text |-> x]
Missing == [given |-> FALSE, text |-> <<>>]
\* The same for a value that is compared as a whole string.
MissingString == [given |-> FALSE, text |-> ""]

\* A port number, or None.
PortNumber(n) == [some |-> TRUE, val |-> n]
NoPort == [some |-> FALSE, val |-> 0]

\* Strings that are parsed are sequences of characters.
DigitChars == <<"0", "1", "2", "3", "4", "5", "6", "7", "8", "9">>
IsDigit(c) == \E d \in DOMAIN DigitChars : DigitChars[d] = c
DigitValue(c) == (CHOOSE d \in DOMAIN DigitChars : DigitChars[d] = c) - 1
Letters ==
  {"a", "b", "c", "d", "e", "f", "g", "h", "i", "j", "k", "l", "m",
   "n", "o", "p", "q", "r", "s", "t", "u", "v", "w", "x", "y", "z",
   "A", "B", "C", "D", "E", "F", "G", "H", "I", "J", "K", "L", "M",
   "N", "O", "P", "Q", "R", "S", "T", "U", "V", "W", "X", "Y", "Z"}
\* The class [\w\d.] of the pattern of line 57.
IsHostChar(c) == c \in Letters \/ IsDigit(c) \/ c = "_" \/ c = "."

\* int(m.group(2)) (line 59): the decimal value of a run of digits.
RECURSIVE ToInt(_)
ToInt(ds) ==
  IF ds = <<>> THEN 0
  ELSE 10 * ToInt(SubSeq(ds, 1, Len(ds) - 1)) + DigitValue(ds[Len(ds)])

StartsWith(s, i, pre) ==
  /\ i + Len(pre) - 1 <= Len(s)
  /\ SubSeq(s, i, i + Len(pre) - 1) = pre

\* Where the longest run of [\w\d.] characters from position j ends.
RECURSIVE HostEnd(_, _)
HostEnd(s, j) ==
  IF j <= Len(s) /\ IsHostChar(s[j]) THEN HostEnd(s, j + 1) ELSE j

\* Up to n digits from position k: \d{1,5} is greedy.
RECURSIVE DigitRun(_, _, _)
DigitRun(s, k, n) ==
  IF n > 0 /\ k <= Len(s) /\ IsDigit(s[k])
    THEN <<s[k]>> \o DigitRun(s, k + 1, n - 1)
    ELSE <<>>

\* ([\w\d.]*):(\d{1,5}) matched from position j: group 2, or <<>> when it
\* does not match.  ":" is no host character, so the host run must end at
\* the colon.
HostPortAt(s, j) ==
  LET k == HostEnd(s, j) IN
  IF k <= Len(s) /\ s[k] = ":" THEN DigitRun(s, k + 1, 5) ELSE <<>>

\* The whole pattern matched from position i: the optional scheme is tried
\* first, then the match without it.
MatchAt(s, i) ==
  LET https == <<"h", "t", "t", "p", "s", ":", "/", "/">>
      http == <<"h", "t", "t", "p", ":", "/", "/">>
      after == IF StartsWith(s, i, https) THEN i + Len(https)
               ELSE IF StartsWith(s, i, http) THEN i + Len(http)
               ELSE i
  IN IF HostPortAt(s, after) # <<>> THEN HostPortAt(s, after)
     ELSE HostPortAt(s, i)

\* re.search (line 57): the match at the leftmost position that has one.
RECURSIVE SearchFrom(_, _)
SearchFrom(s, i) ==
  IF i > Len(s) THEN <<>>
  ELSE IF MatchAt(s, i) # <<>> THEN MatchAt(s, i)
  ELSE SearchFrom(s, i + 1)

\* get_port(address) (lines 51-61).
get_port(address) ==
  IF ~address.given THEN NoPort
  ELSE LET m == SearchFrom(address.text, 1) IN
       IF m # <<>> THEN PortNumber(ToInt(m)) ELSE NoPort

\* is_secure_port(port) (lines 63-70).
is_secure_port(port) ==
  IF port.some THEN port.val < 1024 ELSE FALSE

\* A version string "a.b.c.d" as the numbers between its dots; "" is <<>>.
\* _normalize of functions/version.py: padded with zeros to n segments.
Normalize(v, n) == [i \in 1..n |-> IF i <= Len(v) THEN v[i] ELSE 0]

RECURSIVE CmpLists(_, _)
CmpLists(a, b) ==
  IF a = <<>> THEN 0
  ELSE IF a[1] < b[1] THEN -1
  ELSE IF a[1] > b[1] THEN 1
  ELSE CmpLists(Tail(a), Tail(b))

\* compare_versions(version1, version2) of functions/version.py: cmp of the
\* two lists of numbers, the shorter padded with zeros.
compare_versions(version1, version2) ==
  LET n == IF Len(version1) > Len(version2) THEN Len(version1) ELSE Len(version2)
  IN CmpLists(Normalize(version1, n), Normalize(version2, n))

\* The addresses explored, each with the port a reader sees written in it
\* (none when it has no port).
AddressCases ==
  {
    [text |-> <<"0", ".", "0", ".", "0", ".", "0", ":", "1", "0", "1", "9">>,
     written |-> <<1019>>],
    [text |-> <<"0", ".", "0", ".", "0", ".", "0", ":", "1", "0", "2", "4">>,
     written |-> <<1024>>],
    [text |-> <<"h", "t", "t", "p", "s", ":", "/", "/", "h", "_", "1", ".", "x", ":", "1", "0", "2", "2">>,
     written |-> <<1022>>],
    [text |-> <<"h", "t", "t", "p", ":", "/", "/", "d", "n", ":", "5", "0", "0", "7", "5">>,
     written |-> <<50075>>],
    [text |-> <<"d", "n">>,
     written |-> <<>>],
    [text |-> <<"h", "t", "t", "p", ":", "/", "/", "d", "n", ":">>,
     written |-> <<>>]
  }

\* dfs.datanode.address, .http.address, .https.address: missing, or a string.
AddressValues == {Missing} \cup {Given(c.text) : c \in AddressCases}
\* dfs.http.policy: missing, one of Hadoop's three values, or something else.
HttpPolicyValues ==
  {MissingString, Given("HTTP_ONLY"), Given("HTTPS_ONLY"), Given("HTTP_AND_HTTPS"),
   Given("https_only")}
\* hdp_stack_version as format_hdp_stack_version gives it: "" or x.y.z.w.
StackVersionValues ==
  {<<>>, <<1, 3, 2, 0>>, <<2, 0, 6, 0>>, <<2, 1, 10, 0>>,
   <<2, 2, 0, 0>>, <<2, 3, 0, 0>>, <<3, 0, 0, 0>>}
HdfsUserValues == {"hdfs", "hdfs_dn"}
\* The quoted empty string '""' of lines 78 and 93.
QuotedEmpty == "\"\""

VARIABLES
  times, sleep_time, backoff_factor, err_class,    \* the closure of retry (line 29)
  active,        \* the invocations of the wrapper the caller makes
  pc,            \* where each invocation is
  _times, _sleep_time, _backoff_factor, _err_class,  \* locals (lines 40-43)
  err,           \* the exception bound by the except clause (line 50)
  outcome,       \* what the wrapper gave its caller: a value or an exception
  results,       \* what each call of the wrapped function did, in order
  logs,          \* the Logger.info events of each invocation, in order
  sleeps,        \* the durations passed to time.sleep, in order
  events,        \* the order of calls, logs and sleeps of each invocation
  \* hooks/before-ANY/scripts/params.py, the datanode user (lines 39-98)
  p_pc,                          \* the line params.py has reached
  hdp_stack_version,             \* line 39
  security_enabled, hdfs_user,   \* lines 41-42
  dfs_dn_addr, dfs_dn_http_addr, dfs_dn_https_addr, dfs_http_policy,  \* lines 45-48
  dfs_dn_port, dfs_dn_http_port, dfs_dn_https_port,                   \* lines 80-82
  secure_dn_ports_are_in_use,    \* line 49
  hadoop_secure_dn_user          \* lines 78, 91, 93, 98

policy == <<times, sleep_time, backoff_factor, err_class>>
locals == <<_times, _sleep_time, _backoff_factor, _err_class, err>>
history == <<results, logs, sleeps, events>>
inputs == <<hdp_stack_version, security_enabled, hdfs_user,
            dfs_dn_addr, dfs_dn_http_addr, dfs_dn_https_addr, dfs_http_policy>>
ports == <<dfs_dn_port, dfs_dn_http_port, dfs_dn_https_port>>
params == <<p_pc, inputs, ports, secure_dn_ports_are_in_use, hadoop_secure_dn_user>>
vars == <<policy, active, pc, locals, outcome, history, params>>

\* ---------------------------------------------------------------- Init
\* params.py is not being run.
ParamsIdle ==
  /\ p_pc = "off"
  /\ hdp_stack_version = <<>>
  /\ security_enabled = FALSE
  /\ hdfs_user = "hdfs"
  /\ dfs_dn_addr = Missing
  /\ dfs_dn_http_addr = Missing
  /\ dfs_dn_https_addr = Missing
  /\ dfs_http_policy = MissingString
  /\ dfs_dn_port = NoPort
  /\ dfs_dn_http_port = NoPort
  /\ dfs_dn_https_port = NoPort
  /\ secure_dn_ports_are_in_use = FALSE
  /\ hadoop_secure_dn_user = "-"

InitInvocations ==
  /\ pc = [t \in Invocations |-> "idle"]
  /\ _times = [t \in Invocations |-> 0]
  /\ _sleep_time = [t \in Invocations |-> Frac(0, 1)]
  /\ _backoff_factor = [t \in Invocations |-> Frac(0, 1)]
  /\ _err_class = [t \in Invocations |-> "-"]
  /\ err = [t \in Invocations |-> None]
  /\ outcome = [t \in Invocations |-> None]
  /\ results = [t \in Invocations |-> <<>>]
  /\ logs = [t \in Invocations |-> <<>>]
  /\ sleeps = [t \in Invocations |-> <<>>]
  /\ events = [t \in Invocations |-> <<>>]

\* retry(times, sleep_time, backoff_factor, err_class)(function), called once.
Init ==
  /\ times \in TimesValues
  /\ sleep_time \in SleepTimeValues
  /\ backoff_factor \in BackoffFactorValues
  /\ err_class \in ErrClassValues
  /\ active = {1}
  /\ InitInvocations
  /\ ParamsIdle

\* The same decorated function called twice, the calls free to interleave.
InitConc ==
  /\ times \in ConcTimesValues
  /\ sleep_time \in SleepTimeValues
  /\ backoff_factor \in BackoffFactorValues
  /\ err_class \in ErrClassValues
  /\ active = Invocations
  /\ InitInvocations
  /\ ParamsIdle

\* ------------------------------------------------------------- actions
Event(t, e) == events' = [events EXCEPT ![t] = Append(@, e)]

\* wrapper(*args, **kwargs) is entered: lines 40-43.
Invoke(t) ==
  /\ pc[t] = "idle"
  /\ _times' = [_times EXCEPT ![t] = times]
  /\ _sleep_time' = [_sleep_time EXCEPT ![t] = sleep_time]
  /\ _backoff_factor' = [_backoff_factor EXCEPT ![t] = backoff_factor]
  /\ _err_class' = [_err_class EXCEPT ![t] = err_class]
  /\ pc' = [pc EXCEPT ![t] = "while"]
  /\ UNCHANGED <<params, policy, active, err, outcome, history>>

\* While with the test written _times > 0: one iteration too many.
While_OffByOne(t) ==
  /\ pc[t] = "while"
  /\ pc' = [pc EXCEPT ![t] = IF _times[t] > 0 THEN "body" ELSE "last"]
  /\ UNCHANGED <<params, policy, active, locals, outcome, history>>

\* While with the test written _times != 1: right for times >= 1 only.
While_NotOne(t) ==
  /\ pc[t] = "while"
  /\ pc' = [pc EXCEPT ![t] = IF _times[t] # 1 THEN "body" ELSE "last"]
  /\ UNCHANGED <<params, policy, active, locals, outcome, history>>

\* while _times > 1: (line 45); when false, control goes to line 54.
While(t) ==
  /\ pc[t] = "while"
  /\ pc' = [pc EXCEPT ![t] = IF _times[t] > 1 THEN "body" ELSE "last"]
  /\ UNCHANGED <<params, policy, active, locals, outcome, history>>

\* LoopBody without line 47: the sleep time never grows.
LoopBody_NoBackoff(t) ==
  /\ pc[t] = "body"
  /\ _times' = [_times EXCEPT ![t] = @ - 1]
  /\ pc' = [pc EXCEPT ![t] = "try"]
  /\ UNCHANGED <<params, policy, active, _sleep_time, _backoff_factor, _err_class, err, outcome, history>>

\* LoopBody counting down on the closure's times, which every invocation
\* of the decorated function shares, instead of on a local copy.
LoopBody_SharedCounter(t) ==
  /\ pc[t] = "body"
  /\ times' = times - 1
  /\ _times' = [_times EXCEPT ![t] = times - 1]
  /\ _sleep_time' = [_sleep_time EXCEPT ![t] = Mul(@, _backoff_factor[t])]
  /\ pc' = [pc EXCEPT ![t] = "try"]
  /\ UNCHANGED <<params, sleep_time, backoff_factor, err_class, active, _backoff_factor,
                 _err_class, err, outcome, history>>

\* LoopBody without line 46: the attempts are never counted down.
LoopBody_NoDecrement(t) ==
  /\ pc[t] = "body"
  /\ _sleep_time' = [_sleep_time EXCEPT ![t] = Mul(@, _backoff_factor[t])]
  /\ pc' = [pc EXCEPT ![t] = "try"]
  /\ UNCHANGED <<params, policy, active, _times, _backoff_factor, _err_class, err, outcome, history>>

\* _times -= 1; _sleep_time *= _backoff_factor (lines 46-47).
LoopBody(t) ==
  /\ pc[t] = "body"
  /\ _times' = [_times EXCEPT ![t] = @ - 1]
  /\ _sleep_time' = [_sleep_time EXCEPT ![t] = Mul(@, _backoff_factor[t])]
  /\ pc' = [pc EXCEPT ![t] = "try"]
  /\ UNCHANGED <<params, policy, active, _backoff_factor, _err_class, err, outcome, history>>

\* function(*args, **kwargs) is called inside the try (line 49).
TryCall(t) ==
  /\ pc[t] = "try"
  /\ pc' = [pc EXCEPT ![t] = "in_try"]
  /\ Event(t, "call")
  /\ UNCHANGED <<params, policy, active, locals, outcome, results, logs, sleeps>>

\* TryReturn without the return statement: the value is computed and the
\* loop goes on.
TryReturn_NoReturn(t, v) ==
  /\ pc[t] = "in_try"
  /\ results' = [results EXCEPT ![t] = Append(@, Returned(v))]
  /\ pc' = [pc EXCEPT ![t] = "while"]
  /\ Event(t, "return")
  /\ UNCHANGED <<params, policy, active, locals, outcome, logs, sleeps>>

\* The call of line 49 returns v: return function(...).
TryReturn(t, v) ==
  /\ pc[t] = "in_try"
  /\ results' = [results EXCEPT ![t] = Append(@, Returned(v))]
  /\ outcome' = [outcome EXCEPT ![t] = Returned(v)]
  /\ pc' = [pc EXCEPT ![t] = "done"]
  /\ Event(t, "return")
  /\ UNCHANGED <<params, policy, active, locals, logs, sleeps>>

\* TryRaise with a bare except: every exception is caught.
TryRaise_CatchAll(t, e) ==
  /\ pc[t] = "in_try"
  /\ results' = [results EXCEPT ![t] = Append(@, e)]
  /\ Event(t, "raise")
  /\ err' = [err EXCEPT ![t] = e]
  /\ pc' = [pc EXCEPT ![t] = "except"]
  /\ UNCHANGED <<params, policy, active, _times, _sleep_time, _backoff_factor, _err_class,
                 outcome, logs, sleeps>>

\* The call of line 49 raises e: the except clause of line 50 catches it
\* when it is an instance of _err_class; otherwise it leaves the wrapper.
TryRaise(t, e) ==
  /\ pc[t] = "in_try"
  /\ results' = [results EXCEPT ![t] = Append(@, e)]
  /\ Event(t, "raise")
  /\ IF Caught(e, _err_class[t])
       THEN /\ err' = [err EXCEPT ![t] = e]
            /\ pc' = [pc EXCEPT ![t] = "except"]
            /\ UNCHANGED outcome
       ELSE /\ outcome' = [outcome EXCEPT ![t] = e]
            /\ pc' = [pc EXCEPT ![t] = "done"]
            /\ UNCHANGED err
  /\ UNCHANGED <<params, policy, active, _times, _sleep_time, _backoff_factor, _err_class, logs, sleeps>>

\* LogRetry with lines 51 and 52 exchanged: the sleep is taken first and
\* the event is logged when it has ended.
LogRetry_AfterSleep(t) ==
  /\ pc[t] = "except"
  /\ sleeps' = [sleeps EXCEPT ![t] = Append(@, _sleep_time[t])]
  /\ logs' = [logs EXCEPT ![t] = Append(@,
        [remaining |-> _times[t], description |-> Str(err[t]),
         seconds |-> FormatD(_sleep_time[t])])]
  /\ pc' = [pc EXCEPT ![t] = "while"]
  /\ events' = [events EXCEPT ![t] = @ \o <<"sleep", "wake", "log">>]
  /\ UNCHANGED <<params, policy, active, locals, outcome, results>>

\* Logger.info("Will retry %d time(s), caught exception: %s. Sleeping for
\* %d sec(s)" % (_times, str(err), _sleep_time)) (line 51).
LogRetry(t) ==
  /\ pc[t] = "except"
  /\ logs' = [logs EXCEPT ![t] = Append(@,
        [remaining |-> _times[t], description |-> Str(err[t]),
         seconds |-> FormatD(_sleep_time[t])])]
  /\ pc' = [pc EXCEPT ![t] = "sleep"]
  /\ Event(t, "log")
  /\ UNCHANGED <<params, policy, active, locals, outcome, results, sleeps>>

\* time.sleep(_sleep_time) is entered (line 52).
SleepStart(t) ==
  /\ pc[t] = "sleep"
  /\ sleeps' = [sleeps EXCEPT ![t] = Append(@, _sleep_time[t])]
  /\ pc' = [pc EXCEPT ![t] = "sleeping"]
  /\ Event(t, "sleep")
  /\ UNCHANGED <<params, policy, active, locals, outcome, results, logs>>

\* time.sleep returns; control goes back to the loop test of line 45.
SleepEnd(t) ==
  /\ pc[t] = "sleeping"
  /\ pc' = [pc EXCEPT ![t] = "while"]
  /\ Event(t, "wake")
  /\ UNCHANGED <<params, policy, active, locals, outcome, results, logs, sleeps>>

\* function(*args, **kwargs) is called after the loop (line 54).
LastCall(t) ==
  /\ pc[t] = "last"
  /\ pc' = [pc EXCEPT ![t] = "in_last"]
  /\ Event(t, "call")
  /\ UNCHANGED <<params, policy, active, locals, outcome, results, logs, sleeps>>

\* LastEnd raising the exception the except clause caught last (raise err)
\* in place of the one the call of line 54 has just raised.
LastEnd_RaiseEarlier(t, r) ==
  /\ pc[t] = "in_last"
  /\ results' = [results EXCEPT ![t] = Append(@, r)]
  /\ outcome' = [outcome EXCEPT ![t] =
        IF r.type = "raise" /\ err[t].type = "raise" THEN err[t] ELSE r]
  /\ pc' = [pc EXCEPT ![t] = "done"]
  /\ Event(t, r.type)
  /\ UNCHANGED <<params, policy, active, locals, logs, sleeps>>

\* The call of line 54 returns v or raises e: either way it is what the
\* wrapper gives its caller, no try surrounds it.
LastEnd(t, r) ==
  /\ pc[t] = "in_last"
  /\ results' = [results EXCEPT ![t] = Append(@, r)]
  /\ outcome' = [outcome EXCEPT ![t] = r]
  /\ pc' = [pc EXCEPT ![t] = "done"]
  /\ Event(t, r.type)
  /\ UNCHANGED <<params, policy, active, locals, logs, sleeps>>

\* What may end a time.sleep early: a signal makes Python 2's time.sleep
\* raise IOError (EINTR), Ctrl-C makes it raise KeyboardInterrupt.
Interruptions == {Raised(c, "interrupted") : c \in {"IOError", "KeyboardInterrupt"}}

\* SleepInterrupt as if line 52 stood inside the try: an interruption that
\* is an instance of _err_class is caught and retried.
SleepInterrupt_InsideTry(t, e) ==
  /\ pc[t] = "sleeping"
  /\ Event(t, "interrupt")
  /\ IF Caught(e, _err_class[t])
       THEN /\ err' = [err EXCEPT ![t] = e]
            /\ pc' = [pc EXCEPT ![t] = "except"]
            /\ UNCHANGED outcome
       ELSE /\ outcome' = [outcome EXCEPT ![t] = e]
            /\ pc' = [pc EXCEPT ![t] = "done"]
            /\ UNCHANGED err
  /\ UNCHANGED <<params, policy, active, _times, _sleep_time, _backoff_factor, _err_class,
                 results, logs, sleeps>>

\* time.sleep(_sleep_time) raises e (line 52): the call stands in the except
\* clause, outside the try of lines 48-49, so nothing catches e and it
\* leaves the wrapper.
SleepInterrupt(t, e) ==
  /\ pc[t] = "sleeping"
  /\ outcome' = [outcome EXCEPT ![t] = e]
  /\ pc' = [pc EXCEPT ![t] = "done"]
  /\ Event(t, "interrupt")
  /\ UNCHANGED <<params, policy, active, locals, results, logs, sleeps>>

Raisings == {Raised(c, m) : c \in RaisedClasses, m \in Messages}
Returnings == {Returned(v) : v \in ReturnValues}

Next ==
  \/ \E t \in active : Invoke(t)
  \/ \E t \in active : While(t)
  \/ \E t \in active : LoopBody(t)
  \/ \E t \in active : TryCall(t)
  \/ \E t \in active : \E v \in ReturnValues : TryReturn(t, v)
  \/ \E t \in active : \E e \in Raisings : TryRaise(t, e)
  \/ \E t \in active : LogRetry(t)
  \/ \E t \in active : SleepStart(t)
  \/ \E t \in active : SleepEnd(t)
  \/ \E t \in active : LastCall(t)
  \/ \E t \in active : \E r \in Returnings \cup Raisings : LastEnd(t, r)

Spec == Init /\ [][Next]_vars
SpecConc == InitConc /\ [][Next]_vars

\* One invocation on a host where a time.sleep may be interrupted.
NextIntr ==
  \/ Next
  \/ \E t \in active : \E e \in Interruptions : SleepInterrupt(t, e)

SpecIntr == Init /\ [][NextIntr]_vars

\* One invocation in which every call of the function and every time.sleep
\* returns and the interpreter keeps running the wrapper: a step that can
\* be taken is taken.
SpecLive == Init /\ [][Next]_vars /\ WF_vars(Next)

\* ============================================ params.py, lines 39 to 98
\* params.py has read the configuration (lines 39-49) and stands before
\* line 73; no decorated function is being called.
InitParams ==
  /\ times = 3 /\ sleep_time = Frac(1, 1) /\ backoff_factor = Frac(1, 1)
  /\ err_class = "Exception"
  /\ active = {}
  /\ InitInvocations
  /\ p_pc = "l73"
  /\ hdp_stack_version \in StackVersionValues
  /\ security_enabled \in BOOLEAN
  /\ hdfs_user \in HdfsUserValues
  /\ dfs_dn_addr \in AddressValues
  /\ dfs_dn_http_addr \in AddressValues
  /\ dfs_dn_https_addr \in AddressValues
  /\ dfs_http_policy \in HttpPolicyValues
  /\ dfs_dn_port = NoPort
  /\ dfs_dn_http_port = NoPort
  /\ dfs_dn_https_port = NoPort
  /\ secure_dn_ports_are_in_use = FALSE
  /\ hadoop_secure_dn_user = "-"

retry_state == <<policy, active, pc, locals, outcome, history>>

\* if hdp_stack_version != "" and compare_versions(hdp_stack_version, '2.2') >= 0
IsNewStack ==
  hdp_stack_version # <<>> /\ compare_versions(hdp_stack_version, <<2, 2>>) >= 0

\* Line 73 is true: lines 74-76 set paths, control reaches line 77.
NewStack ==
  /\ p_pc = "l73"
  /\ IsNewStack
  /\ p_pc' = "l77"
  /\ UNCHANGED <<retry_state, inputs, ports, secure_dn_ports_are_in_use,
                 hadoop_secure_dn_user>>

\* Line 73 is false: the else branch, hadoop_secure_dn_user = hdfs_user (lines 94-98).
OldStack ==
  /\ p_pc = "l73"
  /\ ~IsNewStack
  /\ hadoop_secure_dn_user' = hdfs_user
  /\ p_pc' = "done"
  /\ UNCHANGED <<retry_state, inputs, ports, secure_dn_ports_are_in_use>>

\* if not security_enabled: hadoop_secure_dn_user = '""' (lines 77-78).
SecurityOff ==
  /\ p_pc = "l77"
  /\ ~security_enabled
  /\ hadoop_secure_dn_user' = QuotedEmpty
  /\ p_pc' = "done"
  /\ UNCHANGED <<retry_state, inputs, ports, secure_dn_ports_are_in_use>>

\* else: the three get_port calls of lines 80-82.
GetPorts ==
  /\ p_pc = "l77"
  /\ security_enabled
  /\ dfs_dn_port' = get_port(dfs_dn_addr)
  /\ dfs_dn_http_port' = get_port(dfs_dn_http_addr)
  /\ dfs_dn_https_port' = get_port(dfs_dn_https_addr)
  /\ p_pc' = "l84"
  /\ UNCHANGED <<retry_state, inputs, secure_dn_ports_are_in_use, hadoop_secure_dn_user>>

\* HttpPolicy with the HTTPS_ONLY branch looking at the http port, as the
\* HTTP_ONLY branch does.
HttpPolicy_HttpsLooksAtHttp ==
  /\ p_pc = "l84"
  /\ secure_dn_ports_are_in_use' =
       IF dfs_http_policy = Given("HTTP_AND_HTTPS")
         THEN \/ is_secure_port(dfs_dn_port)
              \/ is_secure_port(dfs_dn_http_port)
              \/ is_secure_port(dfs_dn_https_port)
         ELSE is_secure_port(dfs_dn_port) \/ is_secure_port(dfs_dn_http_port)
  /\ p_pc' = "l90"
  /\ UNCHANGED <<retry_state, inputs, ports, hadoop_secure_dn_user>>

\* The if / elif / else on dfs_http_policy (lines 84-89).
HttpPolicy ==
  /\ p_pc = "l84"
  /\ secure_dn_ports_are_in_use' =
       IF dfs_http_policy = Given("HTTPS_ONLY")
         THEN is_secure_port(dfs_dn_port) \/ is_secure_port(dfs_dn_https_port)
       ELSE IF dfs_http_policy = Given("HTTP_AND_HTTPS")
         THEN \/ is_secure_port(dfs_dn_port)
              \/ is_secure_port(dfs_dn_http_port)
              \/ is_secure_port(dfs_dn_https_port)
         ELSE is_secure_port(dfs_dn_port) \/ is_secure_port(dfs_dn_http_port)
  /\ p_pc' = "l90"
  /\ UNCHANGED <<retry_state, inputs, ports, hadoop_secure_dn_user>>

\* if secure_dn_ports_are_in_use: hdfs_user, else '""' (lines 90-93).
AssignSecureDnUser ==
  /\ p_pc = "l90"
  /\ hadoop_secure_dn_user' =
       IF secure_dn_ports_are_in_use THEN hdfs_user ELSE QuotedEmpty
  /\ p_pc' = "done"
  /\ UNCHANGED <<retry_state, inputs, ports, secure_dn_ports_are_in_use>>

NextParams ==
  \/ NewStack
  \/ OldStack
  \/ SecurityOff
  \/ GetPorts
  \/ HttpPolicy
  \/ AssignSecureDnUser

SpecParams == InitParams /\ [][NextParams]_vars

\* ============================================================== claims
\* Vocabulary of the claims, read off the recorded history.
Count(s, x) == Cardinality({i \in DOMAIN s : s[i] = x})
NCalls(t) == Count(events[t], "call")
NSleeps(t) == Count(events[t], "sleep")
NLogs(t) == Count(events[t], "log")
LastOf(s) == s[Len(s)]
Finished(t) == pc[t] = "done"

\* A failure of the retryable kind: an exception that is an instance of the
\* policy's err_class.
Retryable(r) == r.type = "raise" /\ IsSubclass(r.class, err_class)
NotRetryable(r) == r.type = "raise" /\ ~IsSubclass(r.class, err_class)
AllRetryable(s) == \A i \in DOMAIN s : Retryable(s[i])

RECURSIVE Pow(_, _)
Pow(x, k) == IF k = 0 THEN Frac(1, 1) ELSE Mul(x, Pow(x, k - 1))

\* The consistency of the recorded history that every claim relies on: the
\* counts taken from the event order are the lengths of the logs and sleeps.
CountsAgree(t) ==
  /\ NLogs(t) = Len(logs[t])
  /\ NSleeps(t) = Len(sleeps[t])

\* C1: with times = N >= 1 and a function that fails with a retryable kind
\* on every call, a finished invocation has called the function exactly N
\* times, logged exactly N-1 events, slept exactly N-1 times, none of them
\* after the N-th failure, and has propagated the failure of the N-th call.
C1_AlwaysFailing ==
  \A t \in active :
    (Finished(t) /\ times >= 1 /\ AllRetryable(results[t])) =>
      /\ NCalls(t) = times
      /\ Len(results[t]) = times
      /\ CountsAgree(t)
      /\ Len(logs[t]) = times - 1
      /\ Len(sleeps[t]) = times - 1
      /\ LastOf(events[t]) = "raise"
      /\ outcome[t] = results[t][times]

C1_Witness ==
  /\ Finished(1) /\ times = 3 /\ AllRetryable(results[1])
  /\ Len(results[1]) = 3 /\ Len(sleeps[1]) = 2

\* C2: when the function fails retryably on its first k calls (0 <= k <
\* times) and returns on call k+1, the invocation is finished with exactly
\* k+1 calls, k log events and k sleeps, the return is the last event, and
\* the wrapper has returned exactly the value of call k+1.
C2_SucceedsAfterK ==
  \A t \in active : \A k \in 0..(MaxTimes + 1) :
    ( /\ Len(results[t]) = k + 1
      /\ k < times
      /\ AllRetryable(SubSeq(results[t], 1, k))
      /\ results[t][k + 1].type = "return" ) =>
      /\ Finished(t)
      /\ NCalls(t) = k + 1
      /\ CountsAgree(t)
      /\ Len(logs[t]) = k
      /\ Len(sleeps[t]) = k
      /\ LastOf(events[t]) = "return"
      /\ outcome[t] = results[t][k + 1]
      /\ outcome[t].type = "return"

C2_Witness ==
  /\ times = 5 /\ Len(results[1]) = 3
  /\ AllRetryable(SubSeq(results[1], 1, 2))
  /\ results[1][3] = Returned("v2")
  /\ outcome[1] = Returned("v2")

\* C3: a call at any attempt that fails with a kind that does not match
\* err_class is the last call: the failure is propagated at once, with no
\* log event and no sleep for it.
C3_NotRetryablePropagates ==
  \A t \in active : \A i \in DOMAIN results[t] :
    NotRetryable(results[t][i]) =>
      /\ i = Len(results[t])
      /\ Finished(t)
      /\ outcome[t] = results[t][i]
      /\ NCalls(t) = i
      /\ CountsAgree(t)
      /\ Len(logs[t]) = i - 1
      /\ Len(sleeps[t]) = i - 1
      /\ LastOf(events[t]) = "raise"

C3_Witness ==
  /\ times > 1 /\ err_class = "IOError"
  /\ results[1] = <<Raised("ValueError", "m1")>>
  /\ Finished(1) /\ logs[1] = <<>> /\ NCalls(1) = 1

C5_FirstSleepIsSleepTime ==
  \A t \in active : \A k \in DOMAIN sleeps[t] :
    sleeps[t][k] = IF k = 1 THEN sleep_time
                   ELSE Mul(sleeps[t][k - 1], backoff_factor)

C7_SingleAttempt ==
  \A t \in active :
    times = 1 =>
      /\ NCalls(t) <= 1
      /\ logs[t] = <<>> /\ NLogs(t) = 0
      /\ sleeps[t] = <<>> /\ NSleeps(t) = 0
      /\ Finished(t) =>
           /\ NCalls(t) = 1
           /\ Len(results[t]) = 1
           /\ outcome[t] = results[t][1]
           /\ Len(events[t]) = 2

C7_Witness ==
  /\ times = 1 /\ Finished(1)
  /\ Retryable(results[1][1])
  /\ outcome[1] = results[1][1]
  /\ events[1] = <<"call", "raise">>

\* The number of the attempt an event at position p belongs to.
AttemptAt(ev, p) == Cardinality({q \in 1..p : ev[q] = "call"})
\* The number of the final attempt: times, or 1 when times is below 1.
FinalAttempt == IF times > 1 THEN times ELSE 1

\* C8: the events of an invocation are ordered as: a failed call, then one
\* log event, then one sleep, then the next call; the log precedes its
\* sleep, the next call starts only after the sleep has ended, and nothing
\* follows a successful call or the failure of the final attempt.
C8_EventOrder ==
  \A t \in active :
    LET ev == events[t] IN
    \A p \in DOMAIN ev :
      /\ ev[p] = "call" => (p = 1 \/ ev[p - 1] = "wake")
      /\ ev[p] \in {"return", "raise"} => (p > 1 /\ ev[p - 1] = "call")
      /\ ev[p] = "log" => (p > 1 /\ ev[p - 1] = "raise")
      /\ ev[p] = "sleep" => (p > 1 /\ ev[p - 1] = "log")
      /\ ev[p] = "wake" => (p > 1 /\ ev[p - 1] = "sleep")
      /\ ev[p] = "return" => p = Len(ev)
      /\ (ev[p] = "raise" /\ AttemptAt(ev, p) >= FinalAttempt) => p = Len(ev)

C8_Witness ==
  events[1] = <<"call", "raise", "log", "sleep", "wake",
                "call", "raise", "log", "sleep", "wake", "call", "return">>

\* C9: the i-th log event of an invocation carries the remaining attempts
\* times - i, the description of the failure of call i, and as its seconds
\* the duration of the sleep that follows it.
C9_LogFields ==
  \A t \in active : \A i \in DOMAIN logs[t] :
    /\ logs[t][i].remaining = times - i
    /\ logs[t][i].description = Str(results[t][i])
    /\ i \in DOMAIN sleeps[t] => Frac(logs[t][i].seconds, 1) = sleeps[t][i]

\* What one invocation does depends on the policy and on what its own calls
\* of the function did, and on nothing else.
RunsAsAlone(t) ==
  /\ NCalls(t) <= FinalAttempt
  /\ \A i \in DOMAIN results[t] :
       i < Len(results[t]) => (Retryable(results[t][i]) /\ i < FinalAttempt)
  /\ Finished(t) <=>
       /\ results[t] # <<>>
       /\ \/ ~Retryable(LastOf(results[t]))
          \/ Len(results[t]) = FinalAttempt
  /\ CountsAgree(t)
  /\ Len(logs[t]) \in {NCalls(t) - 1, NCalls(t)} \cap Nat
  /\ \A i \in DOMAIN logs[t] : logs[t][i].remaining = times - i
  /\ \A i \in DOMAIN sleeps[t] :
       sleeps[t][i] = Mul(sleep_time, Pow(backoff_factor, i))

\* C10: two invocations of the same decorated function, one after the other
\* or interleaved, each make the calls, log the remaining attempts and take
\* the sleeps they would make alone, and no step changes the policy.
C10_IndependentInvocations ==
  /\ [](\A t \in active : RunsAsAlone(t))
  /\ [][policy' = policy]_vars

C10_Witness ==
  /\ active = {1, 2}
  /\ pc[1] = "sleeping" /\ Len(logs[1]) = 1
  /\ pc[2] = "in_last" /\ Len(logs[2]) = 1 /\ Len(sleeps[2]) = 1
  /\ results[1] # results[2]

\* A call of the function has started and has not ended.
InCall(t) == pc[t] \in {"in_try", "in_last"}

\* The calls of the function are made one after another: the attempts
\* started are 1, 2, ... and each has ended before the next starts.
Sequential(t) ==
  /\ Len(results[t]) = IF InCall(t) THEN NCalls(t) - 1 ELSE NCalls(t)
  /\ \A p \in DOMAIN events[t] :
       events[t][p] = "call" =>
         AttemptAt(events[t], p) = Cardinality(
           {q \in 1..p : events[t][q] \in {"return", "raise"}}) + 1

\* C11: when every call and every sleep returns, an invocation with
\* times >= 1 eventually finishes, in exactly one of SUCCESS (a value is
\* returned) or FAILED (the last failure is raised), stays there, and has
\* made at most times calls, strictly one after another.
C11_EventuallyTerminal ==
  /\ (times >= 1) => <>(\A t \in active : Finished(t))
  /\ [](times >= 1 => \A t \in active :
          /\ NCalls(t) <= times
          /\ Sequential(t)
          /\ Finished(t) <=> outcome[t].type \in {"return", "raise"}
          /\ Finished(t) => outcome[t] = LastOf(results[t]))
  /\ [][\A t \in active :
          Finished(t) => (Finished(t)' /\ outcome'[t] = outcome[t])]_vars

C11_Witness ==
  /\ times = 3 /\ Finished(1) /\ NCalls(1) = 3
  /\ outcome[1].type = "raise" /\ Retryable(outcome[1])

\* C12: an interrupted sleep ends the invocation at once: the interruption
\* is what the wrapper raises, the function is not called again, and the
\* interruption is not treated as a retryable failure, even when it is an
\* instance of err_class and attempts remain.
C12_InterruptPropagates ==
  \A t \in active : \A p \in DOMAIN events[t] :
    events[t][p] = "interrupt" =>
      /\ p = Len(events[t])
      /\ Finished(t)
      /\ outcome[t] \in Interruptions
      /\ NCalls(t) = Len(sleeps[t])
      /\ Len(results[t]) = Len(sleeps[t])
      /\ Len(logs[t]) = Len(sleeps[t])
      /\ err[t] = LastOf(results[t])

C12_Witness ==
  /\ times = 3 /\ err_class = "IOError"
  /\ Len(results[1]) = 1 /\ NCalls(1) = 1
  /\ LastOf(events[1]) = "interrupt"
  /\ outcome[1] = Raised("IOError", "interrupted")
  /\ Finished(1)

\* The retry(...) call gave no err_class: line 29 makes it Exception.
DefaultErrClass == err_class = "Exception"

\* C13 as stated: with the default err_class every failure of the function
\* on a non-final attempt, of whatever class, is followed by a further
\* attempt and is not propagated.
C13_EveryFailureRetried ==
  \A t \in active : \A i \in DOMAIN results[t] :
    (DefaultErrClass /\ results[t][i].type = "raise" /\ i < times) =>
      ~(Finished(t) /\ i = Len(results[t]))

\* C13 as amended: with the default err_class a failure on a non-final
\* attempt is followed by a further attempt exactly when it is an instance
\* of Exception; an exception outside Exception (KeyboardInterrupt) is
\* propagated at once.
C13_DefaultCatchesExceptions ==
  \A t \in active : \A i \in DOMAIN results[t] :
    (DefaultErrClass /\ results[t][i].type = "raise" /\ i < times) =>
      IF IsSubclass(results[t][i].class, "Exception")
        THEN /\ ~(Finished(t) /\ i = Len(results[t]))
             /\ Len(logs[t]) >= i \/ pc[t] = "except"
             /\ outcome[t] # None => i < Len(results[t])
        ELSE /\ Finished(t) /\ i = Len(results[t])
             /\ outcome[t] = results[t][i]
             /\ Len(logs[t]) = i - 1

C13_Witness ==
  /\ DefaultErrClass /\ times = 3
  /\ Len(results[1]) = 3
  /\ results[1][1] = Raised("ValueError", "m1")
  /\ results[1][2] = Raised("IOError", "m2")
  /\ Len(logs[1]) = 2

NWakes(t) == Count(events[t], "wake")

\* C14: with times >= 1, in every state of an invocation: at most times
\* calls have started, at most times - 1 events are logged, the sleeps
\* started are no more than the log events and no fewer than one less, and
\* while a call is in progress the calls started are the completed sleeps
\* plus one.
C14_Counts ==
  \A t \in active :
    times >= 1 =>
      /\ NCalls(t) <= times
      /\ NLogs(t) <= times - 1
      /\ Len(logs[t]) = NLogs(t)
      /\ NSleeps(t) <= NLogs(t)
      /\ NSleeps(t) >= NLogs(t) - 1
      /\ Len(sleeps[t]) = NSleeps(t)
      /\ InCall(t) => NCalls(t) = NWakes(t) + 1

C14_Witness ==
  /\ times = 3 /\ InCall(1)
  /\ NCalls(1) = 3 /\ NWakes(1) = 2 /\ NLogs(1) = 2

\* C15: times <= 0 is accepted and behaves as times = 1: the function is
\* called exactly once, nothing is logged, no sleep is taken, and what the
\* call did is what the wrapper gives its caller.
C15_NonPositiveTimes ==
  \A t \in active :
    times <= 0 =>
      /\ pc[t] \notin {"body", "try", "in_try", "except", "sleep", "sleeping"}
      /\ NCalls(t) <= 1
      /\ logs[t] = <<>> /\ NLogs(t) = 0
      /\ sleeps[t] = <<>> /\ NSleeps(t) = 0
      /\ Finished(t) =>
           /\ events[t] \in {<<"call", "return">>, <<"call", "raise">>}
           /\ Len(results[t]) = 1
           /\ outcome[t] = results[t][1]

C15_Witness ==
  /\ times = -1 /\ Finished(1)
  /\ Retryable(results[1][1])
  /\ outcome[1] = results[1][1]
  /\ events[1] = <<"call", "raise">>

\* The port written in an address, <<>> when it is missing or has none.
WrittenPort(a) ==
  IF ~a.given THEN <<>>
  ELSE (CHOOSE c \in AddressCases : c.text = a.text).written
Below1024(a) == WrittenPort(a) # <<>> /\ WrittenPort(a)[1] < 1024

StackEmptyOrBelow22 ==
  \/ hdp_stack_version = <<>>
  \/ hdp_stack_version[1] < 2
  \/ hdp_stack_version[1] = 2 /\ hdp_stack_version[2] < 2

\* A datanode port relevant to dfs.http.policy is below 1024.
RelevantPortBelow1024 ==
  CASE dfs_http_policy = Given("HTTPS_ONLY") ->
         Below1024(dfs_dn_addr) \/ Below1024(dfs_dn_https_addr)
    [] dfs_http_policy = Given("HTTP_AND_HTTPS") ->
         \/ Below1024(dfs_dn_addr)
         \/ Below1024(dfs_dn_http_addr)
         \/ Below1024(dfs_dn_https_addr)
    [] OTHER ->
         Below1024(dfs_dn_addr) \/ Below1024(dfs_dn_http_addr)

\* C16: when params.py has run, hadoop_secure_dn_user is hdfs_user exactly
\* when (a) the stack version is empty or below 2.2, or (b) it is at least
\* 2.2, security is enabled and a datanode port relevant to dfs.http.policy
\* is below 1024 (a missing or unparsable port not counting); in every
\* other case it is the quoted empty string.
C16_SecureDnUser ==
  p_pc = "done" =>
    /\ hadoop_secure_dn_user = hdfs_user <=>
         \/ StackEmptyOrBelow22
         \/ ~StackEmptyOrBelow22 /\ security_enabled /\ RelevantPortBelow1024
    /\ hadoop_secure_dn_user # hdfs_user => hadoop_secure_dn_user = QuotedEmpty

C16_Witness ==
  /\ p_pc = "done"
  /\ hdp_stack_version = <<2, 2, 0, 0>> /\ security_enabled
  /\ dfs_http_policy = Given("HTTPS_ONLY")
  /\ Below1024(dfs_dn_http_addr)
  /\ ~Below1024(dfs_dn_addr) /\ dfs_dn_addr.given
  /\ dfs_dn_https_addr = Given(<<"h", "t", "t", "p", ":", "/", "/", "d", "n", ":">>)
  /\ hadoop_secure_dn_user = QuotedEmpty

=============================================================================
